---- MODULE Spec2Model ----
(***************************************************************************)
(* Model of checkota.py: the Telegram message splitter                    *)
(* (TelegramNotifier._split_message), the update extractor                *)
(* (UpdateChecker._parse_response, _clean_description), the update store  *)
(* (UpdateInfoStore) and the control flow of main().                       *)
(*                                                                         *)
(* Text is modelled character by character: a string is a sequence of     *)
(* one-character strings, so len(), concatenation, split, rstrip and the  *)
(* two regular expressions of _split_message are computed as Python       *)
(* computes them.                                                          *)
(***************************************************************************)
EXTENDS Integers, Sequences, FiniteSets, TLC

(***************************************************************************)
(* Bounds of the model.                                                    *)
(***************************************************************************)
\* longest input message of the splitter, counted in tokens (see Tokens)
MaxTokens == 5
\* the ceilings tried for MAX_MESSAGE_LENGTH: MinCeiling..MaxCeiling
MinCeiling == 5
MaxCeiling == 6
\* longest settings sequence of a checkin response
MaxSettings == 3
\* longest description handed to _clean_description, counted in tokens
\* (see DescriptionTokens)
MaxDescriptionTokens == 4

(***************************************************************************)
(* State.                                                                  *)
(***************************************************************************)
\* one call of TelegramNotifier._split_message
VARIABLES
  message,          \* the argument of _split_message
  ceiling,          \* MAX_MESSAGE_LENGTH
  spc,              \* position in _split_message
  parts,            \* the local list parts, as packed (before line 139)
  balance,          \* per part: the processed part and open_tags after it
  processed_parts   \* the returned list

\* one run of main()
VARIABLES
  pc,                 \* position in main()
  args,               \* parsed command line: debug, skip_telegram, skip_git
  bot_token,          \* os.environ.get('bot_token') is set and not empty
  chat_id,            \* os.environ.get('chat_id') is set and not empty
  store_file,         \* update_info.json on disk
  store_at_start,     \* update_info.json as the run found it
  telegram_notifier,  \* TRUE when main holds a TelegramNotifier
  response,           \* the checkin response received
  check_result,       \* where check_for_updates returned or raised
  checkin_posts,      \* POSTs sent to CHECKIN_URL
  debug_file,         \* the debug artifact written by check_for_updates
  found,              \* main's found
  update_data,        \* main's update_data (None or the record)
  all_update_info,    \* main's all_update_info (None before load)
  save_result,        \* how UpdateInfoStore.save ended
  target_fingerprint, \* main's target_fingerprint
  message_parts,      \* send_message's message_parts
  posts,              \* POSTs sent to the Telegram sendMessage endpoint
  exit_code,          \* the process exit code (None while running)
  outcome,            \* which return or uncaught exception ended the run
  skip_requested,     \* args.skip_telegram as parsed at line 574
  release_lookup      \* how the release lookup of line 666 went

\* two runs of main() at lines 629-640, on one update_info.json
VARIABLES
  race_pc,      \* per run: position in lines 629-640
  race_loaded,  \* per run: its all_update_info (None before load)
  race_saved,   \* per run: how its UpdateInfoStore.save ended
  race_file,    \* the update_info.json the runs share
  race_log      \* the runs in the order of the steps they took

\* calls of UpdateChecker._parse_response and of _clean_description
VARIABLES
  xpc,                 \* position in the calls of the extractor
  checkin_response,    \* the settings of the decoded response
  clock,               \* the reading of datetime.now() at the latest call
  first_record,        \* what the first call of _parse_response returned
  second_record,       \* what a second call on the same response returned
  raw_description,     \* the argument of _clean_description
  cleaned_description  \* what _clean_description returned

svars == <<message, ceiling, spc, parts, balance, processed_parts>>

mvars == <<pc, args, bot_token, chat_id, store_file, store_at_start,
           telegram_notifier,
           response, check_result, checkin_posts, debug_file, found,
           update_data, all_update_info, save_result, target_fingerprint,
           message_parts, posts, exit_code, outcome, skip_requested,
           release_lookup>>

xvars == <<xpc, checkin_response, clock, first_record, second_record,
           raw_description, cleaned_description>>

rvars == <<race_pc, race_loaded, race_saved, race_file, race_log>>

vars == <<svars, mvars, xvars, rvars>>

(***************************************************************************)
(* Characters and strings.                                                 *)
(***************************************************************************)
NL == "\n"
\* characters the pattern \w matches, among the characters of the model
WordChars == {"x", "b", "i"}
\* characters str.rstrip() removes, among the characters of the model
Whitespace == {" ", NL}

\* ''.join(strs)
RECURSIVE Join(_)
Join(strs) ==
  IF strs = <<>> THEN <<>> ELSE Head(strs) \o Join(Tail(strs))

\* The pieces input messages are made of: a character of plain text, a
\* single newline, the blank-line separator, and the opening and closing
\* tags of two names.
Tokens ==
  { <<"x">>, <<NL>>, <<NL, NL>>,
    <<"<", "b", ">">>, <<"<", "/", "b", ">">>,
    <<"<", "i", ">">>, <<"<", "/", "i", ">">> }

Messages ==
  { Join(ts) : ts \in UNION { [1..n -> Tokens] : n \in 0..MaxTokens } }

Ceilings == MinCeiling..MaxCeiling

(***************************************************************************)
(* str.split('\n\n') and str.rstrip()                                      *)
(***************************************************************************)
\* message.split('\n\n'): cur is the block being read
RECURSIVE SplitBlocks(_, _)
SplitBlocks(s, cur) ==
  IF s = <<>> THEN <<cur>>
  ELSE IF Len(s) >= 2 /\ s[1] = NL /\ s[2] = NL
       THEN <<cur>> \o SplitBlocks(SubSeq(s, 3, Len(s)), <<>>)
       ELSE SplitBlocks(Tail(s), Append(cur, Head(s)))

RECURSIVE RStrip(_)
RStrip(s) ==
  IF s = <<>> THEN s
  ELSE IF s[Len(s)] \in Whitespace THEN RStrip(SubSeq(s, 1, Len(s) - 1))
       ELSE s

(***************************************************************************)
(* Greedy packing of blocks, checkota.py lines 120-137                     *)
(***************************************************************************)
\* the loop over blocks with the test of line 128 made on
\* current_part + block, without the separator
RECURSIVE PackLoopNoSeparator(_, _, _)
PackLoopNoSeparator(blocks, st, C) ==
  IF blocks = <<>> THEN st
  ELSE LET block == Head(blocks)
           grown == st.current_part \o block \o <<NL, NL>>
       IN  IF Len(st.current_part \o block) > C
           THEN PackLoopNoSeparator(Tail(blocks),
                  [parts |-> IF st.current_part # <<>>
                             THEN Append(st.parts, RStrip(st.current_part))
                             ELSE st.parts,
                   current_part |-> block \o <<NL, NL>>], C)
           ELSE PackLoopNoSeparator(Tail(blocks),
                  [parts |-> st.parts, current_part |-> grown], C)

\* the loop over blocks: st = [parts, current_part]
RECURSIVE PackLoop(_, _, _)
PackLoop(blocks, st, C) ==
  IF blocks = <<>> THEN st
  ELSE LET block == Head(blocks)
           grown == st.current_part \o block \o <<NL, NL>>
       IN  IF Len(grown) > C
           THEN PackLoop(Tail(blocks),
                  [parts |-> IF st.current_part # <<>>
                             THEN Append(st.parts, RStrip(st.current_part))
                             ELSE st.parts,
                   current_part |-> block \o <<NL, NL>>], C)
           ELSE PackLoop(Tail(blocks),
                  [parts |-> st.parts, current_part |-> grown], C)

\* PackBlocks without lines 136-137: the part being filled when the
\* blocks run out is never appended
PackBlocksNoFlush(text, C) ==
  PackLoop(SplitBlocks(text, <<>>),
           [parts |-> <<>>, current_part |-> <<>>], C).parts

PackBlocks(text, C) ==
  LET st == PackLoop(SplitBlocks(text, <<>>),
                     [parts |-> <<>>, current_part |-> <<>>], C)
  IN  IF st.current_part # <<>>
      THEN Append(st.parts, RStrip(st.current_part))
      ELSE st.parts

(***************************************************************************)
(* The two regular expressions, checkota.py lines 145-146                  *)
(***************************************************************************)
\* last index of the run of word characters that starts at p (p - 1 if none)
RECURSIVE WordEnd(_, _)
WordEnd(s, p) ==
  IF p <= Len(s) /\ s[p] \in WordChars THEN WordEnd(s, p + 1) ELSE p - 1

\* index of the first ">" at or after p (0 if none)
RECURSIVE FirstGt(_, _)
FirstGt(s, p) ==
  IF p > Len(s) THEN 0
  ELSE IF s[p] = ">" THEN p ELSE FirstGt(s, p + 1)

\* re.findall(r'<(\w+)[^>]*>', s), scanning from p
RECURSIVE FindOpenTags(_, _)
FindOpenTags(s, p) ==
  IF p > Len(s) THEN <<>>
  ELSE LET e == WordEnd(s, p + 1)
           q == FirstGt(s, e + 1)
       IN  IF s[p] = "<" /\ e >= p + 1 /\ q > 0
           THEN <<SubSeq(s, p + 1, e)>> \o FindOpenTags(s, q + 1)
           ELSE FindOpenTags(s, p + 1)

\* re.findall(r'</(\w+)>', s), scanning from p
RECURSIVE FindCloseTags(_, _)
FindCloseTags(s, p) ==
  IF p > Len(s) THEN <<>>
  ELSE LET e == WordEnd(s, p + 2)
       IN  IF /\ s[p] = "<"
              /\ p + 1 <= Len(s) /\ s[p + 1] = "/"
              /\ e >= p + 2
              /\ e + 1 <= Len(s) /\ s[e + 1] = ">"
           THEN <<SubSeq(s, p + 2, e)>> \o FindCloseTags(s, e + 2)
           ELSE FindCloseTags(s, p + 1)

(***************************************************************************)
(* The tag-balance pass, checkota.py lines 139-167                         *)
(***************************************************************************)
InSeq(x, seq) == \E k \in 1..Len(seq) : seq[k] = x

\* list.remove(x): drop the first occurrence of x
RECURSIVE RemoveFirst(_, _)
RemoveFirst(seq, x) ==
  IF seq = <<>> THEN <<>>
  ELSE IF Head(seq) = x THEN Tail(seq)
       ELSE <<Head(seq)>> \o RemoveFirst(Tail(seq), x)

\* for tag in tags: if tag not in close_tags: open_tags.append(tag)
RECURSIVE AppendUnclosed(_, _, _)
AppendUnclosed(tags, close_tags, open_tags) ==
  IF tags = <<>> THEN open_tags
  ELSE AppendUnclosed(Tail(tags), close_tags,
         IF InSeq(Head(tags), close_tags) THEN open_tags
         ELSE Append(open_tags, Head(tags)))

\* for tag in close_tags: if tag in open_tags: open_tags.remove(tag)
RECURSIVE RemoveClosed(_, _)
RemoveClosed(close_tags, open_tags) ==
  IF close_tags = <<>> THEN open_tags
  ELSE RemoveClosed(Tail(close_tags),
         IF InSeq(Head(close_tags), open_tags)
         THEN RemoveFirst(open_tags, Head(close_tags))
         ELSE open_tags)

\* open_tags after the two loops of lines 149-154 have read a part
TrackTags(part, open_tags) ==
  RemoveClosed(FindCloseTags(part, 1),
               AppendUnclosed(FindOpenTags(part, 1), FindCloseTags(part, 1),
                              open_tags))

\* for tag in reversed(open_tags): part += f'</{tag}>'
RECURSIVE ClosingTags(_)
ClosingTags(open_tags) ==
  IF open_tags = <<>> THEN <<>>
  ELSE <<"<", "/">> \o open_tags[Len(open_tags)] \o <<">">>
       \o ClosingTags(SubSeq(open_tags, 1, Len(open_tags) - 1))

\* ''.join(f'<{tag}>' for tag in open_tags)
RECURSIVE OpeningTags(_)
OpeningTags(open_tags) ==
  IF open_tags = <<>> THEN <<>>
  ELSE <<"<">> \o Head(open_tags) \o <<">">> \o OpeningTags(Tail(open_tags))

\* The loop of lines 143-165 from part i on.  plist is the list the loop
\* mutates (line 163), open_tags the list carried from part to part.  The
\* result holds, for each part, the processed part and open_tags as they
\* stand when the part is appended to processed_parts.
RECURSIVE BalanceLoop(_, _, _)
BalanceLoop(plist, i, open_tags) ==
  IF i > Len(plist) THEN <<>>
  ELSE LET now == TrackTags(plist[i], open_tags)
       IN  IF i < Len(plist)
           THEN <<[part |-> plist[i] \o ClosingTags(now), open_tags |-> now]>>
                \o BalanceLoop(
                     [plist EXCEPT ![i + 1] = OpeningTags(now) \o plist[i + 1]],
                     i + 1, now)
           ELSE <<[part |-> plist[i], open_tags |-> now]>>

BalanceTags(plist) == BalanceLoop(plist, 1, <<>>)

\* processed_parts
ProcessedParts(plist) ==
  LET r == BalanceTags(plist) IN [k \in 1..Len(r) |-> r[k].part]

\* TelegramNotifier._split_message with MAX_MESSAGE_LENGTH = C
SplitMessage(text, C) ==
  IF Len(text) <= C THEN <<text>>
  ELSE ProcessedParts(PackBlocks(text, C))

(***************************************************************************)
(* Python values.                                                          *)
(***************************************************************************)
\* None, and a value that is not None
None == <<>>
Some(x) == <<x>>

\* truth value of an optional string: None and '' are false
Truthy(o) == o # None /\ o[1] # <<>>

(***************************************************************************)
(* The update extractor, UpdateChecker._parse_response                     *)
(*                                                                         *)
(* A setting is a record [name, value].  A name is one of SettingNames;   *)
(* a value is a sequence of characters, where OtaPrefix stands for the    *)
(* byte string b'https://android.googleapis.com/packages/ota' and BadByte *)
(* for a byte that is not valid UTF-8.                                     *)
(***************************************************************************)
OtaPrefix == "https://android.googleapis.com/packages/ota"
BadByte == "\\xff"
\* a name that is not valid UTF-8
BadName == "\\xff"

SettingNames ==
  {"update_url", "update_title", "update_description", "update_size",
   "other", BadName}

\* bytes.decode('utf-8') raises UnicodeDecodeError
Undecodable(bytes) == \E k \in 1..Len(bytes) : bytes[k] = BadByte

\* b'https://android.googleapis.com/packages/ota' in entry.value
ContainsOta(value) == \E k \in 1..Len(value) : value[k] = OtaPrefix

RECURSIVE LStrip(_)
LStrip(s) ==
  IF s = <<>> THEN s
  ELSE IF Head(s) \in Whitespace THEN LStrip(Tail(s)) ELSE s

\* str.strip()
Strip(s) == LStrip(RStrip(s))

\* _tidy_title
TidyTitle(text) == Strip(text)

\* last index of the run of whitespace that starts at p (p - 1 if none)
RECURSIVE SpaceEnd(_, _)
SpaceEnd(s, p) ==
  IF p <= Len(s) /\ s[p] \in Whitespace THEN SpaceEnd(s, p + 1) ELSE p - 1

\* last index of the run of non-whitespace that starts at p (p - 1 if none)
RECURSIVE NonSpaceEnd(_, _)
NonSpaceEnd(s, p) ==
  IF p <= Len(s) /\ s[p] \notin Whitespace THEN NonSpaceEnd(s, p + 1)
  ELSE p - 1

\* re.sub(r'\n', '', text)
RECURSIVE RemoveNewlines(_)
RemoveNewlines(s) ==
  IF s = <<>> THEN <<>>
  ELSE IF Head(s) = NL THEN RemoveNewlines(Tail(s))
       ELSE <<Head(s)>> \o RemoveNewlines(Tail(s))

\* line 389 without flags=re.IGNORECASE
RECURSIVE ReplaceBrCaseSensitive(_, _)
ReplaceBrCaseSensitive(s, p) ==
  IF p > Len(s) THEN <<>>
  ELSE LET w == SpaceEnd(s, p + 3)
           j == IF w + 1 <= Len(s) /\ s[w + 1] = "/" THEN w + 1 ELSE w
       IN  IF /\ s[p] = "<"
              /\ p + 2 <= Len(s)
              /\ s[p + 1] = "b"
              /\ s[p + 2] = "r"
              /\ j + 1 <= Len(s) /\ s[j + 1] = ">"
           THEN <<NL>> \o ReplaceBrCaseSensitive(s, j + 2)
           ELSE <<s[p]>> \o ReplaceBrCaseSensitive(s, p + 1)

\* re.sub(r'<br\s*/?>', '\n', text, flags=re.IGNORECASE), scanning from p
RECURSIVE ReplaceBr(_, _)
ReplaceBr(s, p) ==
  IF p > Len(s) THEN <<>>
  ELSE LET w == SpaceEnd(s, p + 3)
           j == IF w + 1 <= Len(s) /\ s[w + 1] = "/" THEN w + 1 ELSE w
       IN  IF /\ s[p] = "<"
              /\ p + 2 <= Len(s)
              /\ s[p + 1] \in {"b", "B"}
              /\ s[p + 2] \in {"r", "R"}
              /\ j + 1 <= Len(s) /\ s[j + 1] = ">"
           THEN <<NL>> \o ReplaceBr(s, j + 2)
           ELSE <<s[p]>> \o ReplaceBr(s, p + 1)

\* re.sub(r'<[^>]*>', '', text), scanning from p
RECURSIVE RemoveTags(_, _)
RemoveTags(s, p) ==
  IF p > Len(s) THEN <<>>
  ELSE LET q == FirstGt(s, p + 1)
       IN  IF s[p] = "<" /\ q > 0 THEN RemoveTags(s, q + 1)
           ELSE <<s[p]>> \o RemoveTags(s, p + 1)

\* the characters standing for 'http://' and 'https://'
UrlSchemes == {"http://", "https://"}

\* re.sub(r'\s*\(http[s]?://\S+\)?', '', text), scanning from p
RECURSIVE RemoveUrlRefs(_, _)
RemoveUrlRefs(s, p) ==
  IF p > Len(s) THEN <<>>
  ELSE LET w == SpaceEnd(s, p)
           e == NonSpaceEnd(s, w + 3)
       IN  IF /\ w + 2 <= Len(s)
              /\ s[w + 1] = "("
              /\ s[w + 2] \in UrlSchemes
              /\ e >= w + 3
           THEN RemoveUrlRefs(s, e + 1)
           ELSE <<s[p]>> \o RemoveUrlRefs(s, p + 1)

\* _clean_description
CleanDescription(text) ==
  Strip(RemoveUrlRefs(RemoveTags(ReplaceBr(RemoveNewlines(text), 1), 1), 1))

\* Pass 1 without the break of line 351: the last match wins
RECURSIVE FindLastUrl(_, _)
FindLastUrl(setting, k) ==
  IF k > Len(setting) THEN None
  ELSE LET later == FindLastUrl(setting, k + 1)
       IN  IF later # None THEN later
           ELSE IF /\ \/ setting[k].name = "update_url"
                      \/ ContainsOta(setting[k].value)
                   /\ ~Undecodable(setting[k].value)
                THEN Some(setting[k].value)
                ELSE None

\* Pass 1, lines 344-355: the value of the first entry, from entry k on,
\* that matches and decodes; an entry that matches and does not decode
\* raises UnicodeDecodeError, which is caught, and the loop goes on.
RECURSIVE FindUrl(_, _)
FindUrl(setting, k) ==
  IF k > Len(setting) THEN None
  ELSE IF /\ \/ setting[k].name = "update_url"
             \/ ContainsOta(setting[k].value)
          /\ ~Undecodable(setting[k].value)
       THEN Some(setting[k].value)
       ELSE FindUrl(setting, k + 1)

\* Pass 2 with a field set only while it is still None: the first entry
\* of a name wins
RECURSIVE GatherDetailsFirstWins(_, _, _)
GatherDetailsFirstWins(setting, k, update_info) ==
  IF k > Len(setting) THEN update_info
  ELSE LET name == setting[k].name
           value == setting[k].value
       IN  GatherDetailsFirstWins(setting, k + 1,
             IF name = BadName \/ Undecodable(value) THEN update_info
             ELSE IF name = "update_title" /\ update_info.title = None
                  THEN [update_info EXCEPT !.title = Some(TidyTitle(value))]
             ELSE IF /\ name = "update_description"
                     /\ update_info.description = None
                  THEN [update_info EXCEPT
                          !.description = Some(CleanDescription(value))]
             ELSE IF name = "update_size" /\ update_info.size = None
                  THEN [update_info EXCEPT !.size = Some(value)]
             ELSE update_info)

\* Pass 2, lines 360-375, from entry k on
RECURSIVE GatherDetails(_, _, _)
GatherDetails(setting, k, update_info) ==
  IF k > Len(setting) THEN update_info
  ELSE LET name == setting[k].name
           value == setting[k].value
       IN  GatherDetails(setting, k + 1,
             IF name = BadName \/ Undecodable(value) THEN update_info
             ELSE IF name = "update_title"
                  THEN [update_info EXCEPT !.title = Some(TidyTitle(value))]
             ELSE IF name = "update_description"
                  THEN [update_info EXCEPT
                          !.description = Some(CleanDescription(value))]
             ELSE IF name = "update_size"
                  THEN [update_info EXCEPT !.size = Some(value)]
             ELSE update_info)

\* _parse_response without the test of line 359: Pass 2 always runs
ParseResponseAlwaysGather(setting, device, now) ==
  LET url == FindUrl(setting, 1)
  IN  GatherDetails(setting, 1,
        [device |-> device, found |-> url # None, timestamp |-> now,
         title |-> None, description |-> None, size |-> None, url |-> url])

\* _parse_response with the clock read once, before the first call
ParseResponseFrozenClock(setting, device, now) ==
  LET url == FindUrl(setting, 1)
      update_info == [device |-> device, found |-> url # None,
                      timestamp |-> "t1", title |-> None,
                      description |-> None, size |-> None, url |-> url]
  IN  IF update_info.found THEN GatherDetails(setting, 1, update_info)
      ELSE update_info

\* _parse_response; device is config.model, now the clock reading
ParseResponse(setting, device, now) ==
  LET url == FindUrl(setting, 1)
      update_info == [device |-> device, found |-> url # None,
                      timestamp |-> now, title |-> None,
                      description |-> None, size |-> None, url |-> url]
  IN  IF update_info.found THEN GatherDetails(setting, 1, update_info)
      ELSE update_info

\* line 328: update_info.get('found', False) and 'url' in update_info
HasUpdate(update_info) ==
  update_info.found /\ "url" \in DOMAIN update_info

(***************************************************************************)
(* The update store, UpdateInfoStore                                       *)
(*                                                                         *)
(* The file is [exists, content]; content is [kind, value] with kind      *)
(* "empty", "blank" (whitespace only), "malformed" (text that is not      *)
(* JSON), "undecodable" (bytes that are not text) or "json", and value    *)
(* the JSON value: [type, members] with type "object", "array" or "null". *)
(***************************************************************************)
Profiles == {"A", "B"}

NoMembers == [p \in {} |-> None]
JsonObject(members) == [type |-> "object", members |-> members]
JsonArray == [type |-> "array", members |-> NoMembers]
JsonNull == [type |-> "null", members |-> NoMembers]
EmptyDict == JsonObject(NoMembers)

Text(kind) == [kind |-> kind, value |-> JsonNull]
\* json.dump(value, f, indent=2, ensure_ascii=False)
JsonDump(value) == [kind |-> "json", value |-> value]

AbsentFile == [exists |-> FALSE, content |-> Text("empty")]
FileWith(content) == [exists |-> TRUE, content |-> content]

\* UpdateInfoStore.load; io is how reading the file goes: "ok" or
\* "oserror".  raised: an exception load does not catch leaves load.
Load(file, io) ==
  IF ~file.exists THEN [raised |-> FALSE, value |-> EmptyDict]
  ELSE IF io = "oserror" THEN [raised |-> FALSE, value |-> EmptyDict]
  ELSE IF file.content.kind = "undecodable"
       THEN [raised |-> TRUE, value |-> EmptyDict]
  ELSE IF file.content.kind \in {"empty", "blank", "malformed"}
       THEN [raised |-> FALSE, value |-> EmptyDict]
  ELSE [raised |-> FALSE, value |-> file.content.value]

\* all_update_info[config_name] = entry, on a dict
SetItem(dict, key, entry) ==
  JsonObject([p \in DOMAIN dict.members \cup {key} |->
                IF p = key THEN entry ELSE dict.members[p]])

\* UpdateInfoStore.save: the file after save(update_info); io is how
\* writing goes: "written", "open_failed" (open raises OSError, the file
\* is as it was) or "write_failed" (OSError after open truncated the file)
Save(file, update_info, io) ==
  IF io = "written" THEN FileWith(JsonDump(update_info))
  ELSE IF io = "open_failed" THEN file
  ELSE FileWith(Text("malformed"))

(***************************************************************************)
(* One run of main()                                                       *)
(***************************************************************************)
\* args.config.stem, the key of this run in update_info.json
config_name == "A"
\* config.model
Model == "Pixel"
\* datetime.datetime.now(datetime.timezone.utc).isoformat() in this run
Now == "t1"

\* a record an earlier run stored for profile p
EarlierRecord(p) ==
  [device |-> p, found |-> TRUE, timestamp |-> "t0",
   title |-> Some(<<"x">>), description |-> None,
   size |-> Some(<<"x">>), url |-> Some(<<OtaPrefix>>)]

\* lines 634-639
FailureRecord ==
  [device |-> Model, found |-> FALSE, timestamp |-> Now,
   error |-> "Update check failed or returned no data"]

\* the states update_info.json is found in
StoreFiles ==
  {AbsentFile}
  \cup { FileWith(Text(k)) : k \in {"empty", "blank", "malformed", "undecodable"} }
  \cup { FileWith(JsonDump(v)) : v \in {JsonArray, JsonNull} }
  \cup { FileWith(JsonDump(JsonObject([p \in ps |-> EarlierRecord(p)]))) :
           ps \in SUBSET Profiles }

Setting(name, value) == [name |-> name, value |-> value]

\* the settings sequences the checkin service answers with
Responses ==
  { <<>>,
    <<Setting("other", <<"x">>)>>,
    <<Setting("update_url", <<OtaPrefix, "x">>),
      Setting("update_title", <<" ", "x", " ">>),
      Setting("update_description", <<"x", "<", "b", "r", ">", "x">>),
      Setting("update_size", <<"x">>)>>,
    <<Setting("other", <<OtaPrefix, "x">>),
      Setting("update_size", <<"x">>)>>,
    <<Setting("update_url", <<OtaPrefix, "x">>),
      Setting("update_title", <<" ">>),
      Setting("update_size", <<"x">>)>>,
    <<Setting("update_title", <<"x">>),
      Setting("update_url", <<>>),
      Setting("update_size", <<"x">>)>>,
    <<Setting("update_url", <<OtaPrefix, "x">>),
      Setting("update_title", <<"x">>)>> }

\* Messages main hands to send_message (lines 683-690), which split in
\* one, two and three segments under every ceiling of the model.
Block == <<"x", "x", "x", "x", "x", "x", "x", "x">>
NotifyMessages ==
  { <<"x">>,
    <<"<", "b", ">">> \o Block \o <<NL, NL>> \o Block \o <<"<", "/", "b", ">">>,
    Block \o <<NL, NL>> \o Block \o <<NL, NL>> \o Block }

NoResponse == [received |-> FALSE, parsable |-> FALSE, setting |-> <<>>]

MainInit ==
  /\ pc = "config"
  /\ args \in [debug : BOOLEAN, skip_telegram : BOOLEAN, skip_git : BOOLEAN]
  /\ bot_token \in BOOLEAN
  /\ chat_id \in BOOLEAN
  /\ store_file \in StoreFiles
  /\ store_at_start = store_file
  /\ telegram_notifier = FALSE
  /\ response = NoResponse
  /\ check_result = "none"
  /\ checkin_posts = 0
  /\ debug_file = "none"
  /\ found = FALSE
  /\ update_data = None
  /\ all_update_info = None
  /\ save_result = "none"
  /\ target_fingerprint = None
  /\ message_parts = <<>>
  /\ posts = <<>>
  /\ exit_code = None
  /\ outcome = "running"
  /\ skip_requested = args.skip_telegram
  /\ release_lookup = "none"

\* the run ends: return code from main(), or an uncaught exception
Exit(code, how) ==
  /\ pc' = "exit"
  /\ exit_code' = Some(code)
  /\ outcome' = how

\* check_for_updates returns (False, None)
CheckFailed(where) ==
  /\ check_result' = where
  /\ found' = FALSE
  /\ update_data' = None
  /\ pc' = "load"

\* lines 577-588 without the return of lines 585 and 588: the error is
\* logged and the run goes on
LoadConfigNoReturn ==
  /\ pc = "config"
  /\ pc' = "telegram"
  /\ \/ UNCHANGED outcome
     \/ outcome' = "config_error"
  /\ UNCHANGED exit_code
  /\ UNCHANGED <<args, bot_token, chat_id, store_file, telegram_notifier,
                 response, check_result, checkin_posts, debug_file, found,
                 update_data, all_update_info, save_result,
                 target_fingerprint, message_parts, posts>>
  /\ UNCHANGED <<svars, xvars, rvars, store_at_start, skip_requested,
                 release_lookup>>

\* lines 577-588: Config.from_yaml succeeds, or raises
LoadConfig ==
  /\ pc = "config"
  /\ \/ /\ pc' = "telegram"
        /\ UNCHANGED <<exit_code, outcome>>
     \/ Exit(1, "config_error")
  /\ UNCHANGED <<args, bot_token, chat_id, store_file, telegram_notifier,
                 response, check_result, checkin_posts, debug_file, found,
                 update_data, all_update_info, save_result,
                 target_fingerprint, message_parts, posts>>
  /\ UNCHANGED <<svars, xvars, rvars, store_at_start, skip_requested,
                 release_lookup>>

\* lines 593-605 with the constructor called before the test of line
\* 597: missing credentials raise ValueError and the run returns 1
SetupTelegramMissingFails ==
  /\ pc = "telegram"
  /\ IF args.skip_telegram
     THEN /\ pc' = "prepare"
          /\ UNCHANGED <<args, telegram_notifier, exit_code, outcome>>
     ELSE IF ~bot_token \/ ~chat_id
          THEN /\ Exit(1, "telegram_setup_failed")
               /\ UNCHANGED <<args, telegram_notifier>>
          ELSE /\ telegram_notifier' = TRUE
               /\ pc' = "prepare"
               /\ UNCHANGED <<args, exit_code, outcome>>
  /\ UNCHANGED <<bot_token, chat_id, store_file, response, check_result,
                 checkin_posts, debug_file, found, update_data,
                 all_update_info, save_result, target_fingerprint,
                 message_parts, posts>>
  /\ UNCHANGED <<svars, xvars, rvars, store_at_start, skip_requested,
                 release_lookup>>

\* lines 593-605
SetupTelegram ==
  /\ pc = "telegram"
  /\ IF args.skip_telegram
     THEN UNCHANGED <<args, telegram_notifier>>
     ELSE IF ~bot_token \/ ~chat_id
          THEN /\ args' = [args EXCEPT !.skip_telegram = TRUE]
               /\ UNCHANGED telegram_notifier
          ELSE /\ telegram_notifier' = TRUE
               /\ UNCHANGED args
  /\ pc' = "prepare"
  /\ UNCHANGED <<bot_token, chat_id, store_file, response, check_result,
                 checkin_posts, debug_file, found, update_data,
                 all_update_info, save_result, target_fingerprint,
                 message_parts, posts, exit_code, outcome>>
  /\ UNCHANGED <<svars, xvars, rvars, store_at_start, skip_requested,
                 release_lookup>>

\* lines 283-287: _prepare_checkin_request returns, or raises
PrepareRequest ==
  /\ pc = "prepare"
  /\ \/ /\ pc' = "post"
        /\ UNCHANGED <<check_result, found, update_data>>
     \/ CheckFailed("prepare_failed")
  /\ UNCHANGED <<args, bot_token, chat_id, store_file, telegram_notifier,
                 response, checkin_posts, debug_file, all_update_info,
                 save_result, target_fingerprint, message_parts, posts,
                 exit_code, outcome>>
  /\ UNCHANGED <<svars, xvars, rvars, store_at_start, skip_requested,
                 release_lookup>>

\* lines 289-303: the POST answers with a body, or fails (transport
\* error, timeout, HTTP error status)
PostCheckin ==
  /\ pc = "post"
  /\ checkin_posts' = checkin_posts + 1
  /\ \/ /\ \E setting \in Responses :
             response' = [received |-> TRUE, parsable |-> TRUE,
                          setting |-> setting]
        /\ pc' = "decode"
        /\ UNCHANGED <<check_result, found, update_data>>
     \/ /\ response' = [received |-> TRUE, parsable |-> FALSE,
                        setting |-> <<>>]
        /\ pc' = "decode"
        /\ UNCHANGED <<check_result, found, update_data>>
     \/ /\ CheckFailed("request_failed")
        /\ UNCHANGED response
  /\ UNCHANGED <<args, bot_token, chat_id, store_file, telegram_notifier,
                 debug_file, all_update_info, save_result,
                 target_fingerprint, message_parts, posts, exit_code,
                 outcome>>
  /\ UNCHANGED <<svars, xvars, rvars, store_at_start, skip_requested,
                 release_lookup>>

\* lines 306-324: ParseFromString and the debug artifacts.  written is
\* whether writing the debug file succeeds.
DecodeResponse ==
  /\ pc = "decode"
  /\ \E written \in BOOLEAN :
       IF ~response.parsable
       THEN IF args.debug /\ ~written
            \* line 314 raises OSError, caught at line 620
            THEN /\ check_result' = "raised"
                 /\ Exit(1, "critical_check_error")
                 /\ UNCHANGED <<debug_file, found, update_data>>
            ELSE /\ debug_file' = IF args.debug THEN "error_bin" ELSE "none"
                 /\ CheckFailed("parse_failed")
                 /\ UNCHANGED <<exit_code, outcome>>
       ELSE /\ debug_file' = IF args.debug /\ written THEN "text" ELSE "none"
            /\ pc' = "extract"
            /\ UNCHANGED <<check_result, found, update_data, exit_code,
                           outcome>>
  /\ UNCHANGED <<args, bot_token, chat_id, store_file, telegram_notifier,
                 response, checkin_posts, all_update_info, save_result,
                 target_fingerprint, message_parts, posts>>
  /\ UNCHANGED <<svars, xvars, rvars, store_at_start, skip_requested,
                 release_lookup>>

\* lines 327-330
Extract ==
  /\ pc = "extract"
  /\ LET update_info == ParseResponse(response.setting, Model, Now)
     IN  /\ update_data' = Some(update_info)
         /\ found' = HasUpdate(update_info)
  /\ check_result' = "parsed"
  /\ pc' = "load"
  /\ UNCHANGED <<args, bot_token, chat_id, store_file, telegram_notifier,
                 response, checkin_posts, debug_file, all_update_info,
                 save_result, target_fingerprint, message_parts, posts,
                 exit_code, outcome>>
  /\ UNCHANGED <<svars, xvars, rvars, store_at_start, skip_requested,
                 release_lookup>>

\* line 629: update_store.load()
LoadStore ==
  /\ pc = "load"
  /\ \E io \in {"ok", "oserror"} :
       LET loaded == Load(store_file, io)
       IN  IF loaded.raised
           THEN /\ Exit(1, "uncaught_exception")
                /\ UNCHANGED all_update_info
           ELSE /\ all_update_info' = Some(loaded.value)
                /\ pc' = "save"
                /\ UNCHANGED <<exit_code, outcome>>
  /\ UNCHANGED <<args, bot_token, chat_id, store_file, telegram_notifier,
                 response, check_result, checkin_posts, debug_file, found,
                 update_data, save_result, target_fingerprint,
                 message_parts, posts>>
  /\ UNCHANGED <<svars, xvars, rvars, store_at_start, skip_requested,
                 release_lookup>>

\* the entry main stores for this profile, lines 630-639
StoredEntry ==
  IF update_data # None THEN update_data[1] ELSE FailureRecord

\* lines 630-640: the item assignment, which raises TypeError unless
\* load returned a dict, then update_store.save(all_update_info)
SaveStore ==
  /\ pc = "save"
  /\ IF all_update_info[1].type # "object"
     THEN /\ Exit(1, "uncaught_exception")
          /\ UNCHANGED <<all_update_info, store_file, save_result>>
     ELSE \E io \in {"written", "open_failed", "write_failed"} :
            LET merged == SetItem(all_update_info[1], config_name, StoredEntry)
            IN  /\ all_update_info' = Some(merged)
                /\ store_file' = Save(store_file, merged, io)
                /\ save_result' = io
                /\ pc' = "decide"
                /\ UNCHANGED <<exit_code, outcome>>
  /\ UNCHANGED <<args, bot_token, chat_id, telegram_notifier, response,
                 check_result, checkin_posts, debug_file, found,
                 update_data, target_fingerprint, message_parts, posts>>
  /\ UNCHANGED <<svars, xvars, rvars, store_at_start, skip_requested,
                 release_lookup>>

\* lines 644-646 without the test of lines 654-656
DecideNoGate ==
  /\ pc = "decide"
  /\ IF ~found \/ update_data = None
     THEN Exit(0, "no_update")
     ELSE /\ pc' = "release"
          /\ UNCHANGED <<exit_code, outcome>>
  /\ UNCHANGED <<args, bot_token, chat_id, store_file, telegram_notifier,
                 response, check_result, checkin_posts, debug_file, found,
                 update_data, all_update_info, save_result,
                 target_fingerprint, message_parts, posts>>
  /\ UNCHANGED <<svars, xvars, rvars, store_at_start, skip_requested,
                 release_lookup>>

\* lines 644-656
Decide ==
  /\ pc = "decide"
  /\ IF ~found \/ update_data = None
     THEN Exit(0, "no_update")
     ELSE IF \/ ~Truthy(update_data[1].title)
             \/ ~Truthy(update_data[1].url)
             \/ ~Truthy(update_data[1].size)
          THEN Exit(1, "incomplete_update")
          ELSE /\ pc' = "release"
               /\ UNCHANGED <<exit_code, outcome>>
  /\ UNCHANGED <<args, bot_token, chat_id, store_file, telegram_notifier,
                 response, check_result, checkin_posts, debug_file, found,
                 update_data, all_update_info, save_result,
                 target_fingerprint, message_parts, posts>>
  /\ UNCHANGED <<svars, xvars, rvars, store_at_start, skip_requested,
                 release_lookup>>

\* lines 663-668 with a lookup that could not be made counted as an
\* existing release
CheckReleaseUnavailableCounts ==
  /\ pc = "release"
  /\ IF args.skip_git
     THEN /\ release_lookup' = "skipped"
          /\ pc' = "fingerprint"
          /\ UNCHANGED <<exit_code, outcome>>
     ELSE \E lookup \in {"exists", "absent", "unavailable"} :
            /\ release_lookup' = lookup
            /\ IF lookup \in {"exists", "unavailable"}
               THEN Exit(0, "release_exists")
               ELSE /\ pc' = "fingerprint"
                    /\ UNCHANGED <<exit_code, outcome>>
  /\ UNCHANGED <<args, bot_token, chat_id, store_file, telegram_notifier,
                 response, check_result, checkin_posts, debug_file, found,
                 update_data, all_update_info, save_result,
                 target_fingerprint, message_parts, posts>>
  /\ UNCHANGED <<svars, xvars, rvars, store_at_start, skip_requested>>

\* lines 663-668: check_github_release_exists answers True ("exists"),
\* or False because no release has the tag ("absent") or because the
\* lookup could not be made ("unavailable")
CheckRelease ==
  /\ pc = "release"
  /\ IF args.skip_git
     THEN /\ release_lookup' = "skipped"
          /\ pc' = "fingerprint"
          /\ UNCHANGED <<exit_code, outcome>>
     ELSE \E lookup \in {"exists", "absent", "unavailable"} :
            /\ release_lookup' = lookup
            /\ IF lookup = "exists"
               THEN Exit(0, "release_exists")
               ELSE /\ pc' = "fingerprint"
                    /\ UNCHANGED <<exit_code, outcome>>
  /\ UNCHANGED <<args, bot_token, chat_id, store_file, telegram_notifier,
                 response, check_result, checkin_posts, debug_file, found,
                 update_data, all_update_info, save_result,
                 target_fingerprint, message_parts, posts>>
  /\ UNCHANGED <<svars, xvars, rvars, store_at_start, skip_requested>>

\* lines 674-679
FetchFingerprint ==
  /\ pc = "fingerprint"
  /\ \E fingerprint \in {"fingerprint", "N/A"} :
       target_fingerprint' = Some(fingerprint)
  /\ pc' = "notify"
  /\ UNCHANGED <<args, bot_token, chat_id, store_file, telegram_notifier,
                 response, check_result, checkin_posts, debug_file, found,
                 update_data, all_update_info, save_result, message_parts,
                 posts, exit_code, outcome>>
  /\ UNCHANGED <<svars, xvars, rvars, store_at_start, skip_requested,
                 release_lookup>>

\* lines 682-703 and send_message line 183
Notify ==
  /\ pc = "notify"
  /\ IF ~args.skip_telegram /\ telegram_notifier
     THEN /\ \E text \in NotifyMessages, C \in Ceilings :
               message_parts' = SplitMessage(text, C)
          /\ pc' = "send"
          /\ UNCHANGED <<exit_code, outcome>>
     ELSE /\ Exit(0, "notification_skipped")
          /\ UNCHANGED message_parts
  /\ UNCHANGED <<args, bot_token, chat_id, store_file, telegram_notifier,
                 response, check_result, checkin_posts, debug_file, found,
                 update_data, all_update_info, save_result,
                 target_fingerprint, posts>>
  /\ UNCHANGED <<svars, xvars, rvars, store_at_start, skip_requested,
                 release_lookup>>

\* send_message with the try inside the loop: a failed POST does not stop
\* the loop
SendPartKeepGoing ==
  /\ pc = "send"
  /\ LET i == Len(posts) + 1
         last == i = Len(message_parts)
     IN  \E ok \in BOOLEAN :
           /\ posts' = Append(posts, [text |-> message_parts[i],
                                      button |-> last, ok |-> ok])
           /\ IF ~last THEN UNCHANGED <<pc, exit_code, outcome>>
              ELSE IF \A k \in 1..Len(posts') : posts'[k].ok
              THEN Exit(0, "notified")
              ELSE Exit(1, "notification_failed")
  /\ UNCHANGED <<args, bot_token, chat_id, store_file, telegram_notifier,
                 response, check_result, checkin_posts, debug_file, found,
                 update_data, all_update_info, save_result,
                 target_fingerprint, message_parts>>
  /\ UNCHANGED <<svars, xvars, rvars, store_at_start, skip_requested,
                 release_lookup>>

\* send_message with the test of line 195 as i == 0: the button goes with
\* the first part
SendPartButtonFirst ==
  /\ pc = "send"
  /\ LET i == Len(posts) + 1
         last == i = Len(message_parts)
     IN  \E ok \in BOOLEAN :
           /\ posts' = Append(posts, [text |-> message_parts[i],
                                      button |-> (i = 1), ok |-> ok])
           /\ IF ~ok THEN Exit(1, "notification_failed")
              ELSE IF last THEN Exit(0, "notified")
              ELSE UNCHANGED <<pc, exit_code, outcome>>
  /\ UNCHANGED <<args, bot_token, chat_id, store_file, telegram_notifier,
                 response, check_result, checkin_posts, debug_file, found,
                 update_data, all_update_info, save_result,
                 target_fingerprint, message_parts>>
  /\ UNCHANGED <<svars, xvars, rvars, store_at_start, skip_requested,
                 release_lookup>>

\* send_message lines 186-221, one turn of the loop: the POST of part i
\* succeeds, or fails (transport error or HTTP error status)
SendPart ==
  /\ pc = "send"
  /\ LET i == Len(posts) + 1
         last == i = Len(message_parts)
     IN  \E ok \in BOOLEAN :
           /\ posts' = Append(posts, [text |-> message_parts[i],
                                      button |-> last, ok |-> ok])
           /\ IF ~ok THEN Exit(1, "notification_failed")
              ELSE IF last THEN Exit(0, "notified")
              ELSE UNCHANGED <<pc, exit_code, outcome>>
  /\ UNCHANGED <<args, bot_token, chat_id, store_file, telegram_notifier,
                 response, check_result, checkin_posts, debug_file, found,
                 update_data, all_update_info, save_result,
                 target_fingerprint, message_parts>>
  /\ UNCHANGED <<svars, xvars, rvars, store_at_start, skip_requested,
                 release_lookup>>

Next ==
  \/ LoadConfig
  \/ SetupTelegram
  \/ PrepareRequest
  \/ PostCheckin
  \/ DecodeResponse
  \/ Extract
  \/ LoadStore
  \/ SaveStore
  \/ Decide
  \/ CheckRelease
  \/ FetchFingerprint
  \/ Notify
  \/ SendPart

\* no pair of racing runs is in progress
RaceIdle ==
  /\ race_pc = [p \in Profiles |-> "idle"]
  /\ race_loaded = [p \in Profiles |-> None]
  /\ race_saved = [p \in Profiles |-> "none"]
  /\ race_file = AbsentFile
  /\ race_log = <<>>

\* no call of the extractor of its own is in progress
ExtractIdle ==
  /\ xpc = "idle"
  /\ checkin_response = <<>>
  /\ clock = Now
  /\ first_record = None
  /\ second_record = None
  /\ raw_description = <<>>
  /\ cleaned_description = None

\* no call of _split_message of its own is in progress
SplitIdle ==
  /\ message = <<>>
  /\ ceiling = MinCeiling
  /\ spc = "idle"
  /\ parts = <<>>
  /\ balance = <<>>
  /\ processed_parts = <<>>

Init == MainInit /\ SplitIdle /\ ExtractIdle /\ RaceIdle

Spec == Init /\ [][Next]_vars

(***************************************************************************)
(* The splitter as a state machine: one call of _split_message.            *)
(***************************************************************************)
\* no run of main() is in progress
MainIdle ==
  /\ pc = "idle"
  /\ args = [debug |-> FALSE, skip_telegram |-> FALSE, skip_git |-> FALSE]
  /\ bot_token = FALSE
  /\ chat_id = FALSE
  /\ store_file = AbsentFile
  /\ store_at_start = AbsentFile
  /\ telegram_notifier = FALSE
  /\ response = NoResponse
  /\ check_result = "none"
  /\ checkin_posts = 0
  /\ debug_file = "none"
  /\ found = FALSE
  /\ update_data = None
  /\ all_update_info = None
  /\ save_result = "none"
  /\ target_fingerprint = None
  /\ message_parts = <<>>
  /\ posts = <<>>
  /\ exit_code = None
  /\ outcome = "running"
  /\ skip_requested = args.skip_telegram
  /\ release_lookup = "none"

SplitInit ==
  /\ MainIdle
  /\ ExtractIdle
  /\ RaceIdle
  /\ message \in Messages
  /\ ceiling \in Ceilings
  /\ spc = "call"
  /\ parts = <<>>
  /\ balance = <<>>
  /\ processed_parts = <<>>

\* lines 117-118
ReturnWhole ==
  /\ spc = "call"
  /\ Len(message) <= ceiling
  /\ processed_parts' = <<message>>
  /\ spc' = "returned"
  /\ UNCHANGED <<message, ceiling, parts, balance>>
  /\ UNCHANGED <<mvars, xvars, rvars>>

\* lines 120-137
Pack ==
  /\ spc = "call"
  /\ Len(message) > ceiling
  /\ parts' = PackBlocks(message, ceiling)
  /\ spc' = "packed"
  /\ UNCHANGED <<message, ceiling, balance, processed_parts>>
  /\ UNCHANGED <<mvars, xvars, rvars>>

\* lines 139-167
Balance ==
  /\ spc = "packed"
  /\ balance' = BalanceTags(parts)
  /\ processed_parts' = ProcessedParts(parts)
  /\ spc' = "returned"
  /\ UNCHANGED <<message, ceiling, parts>>
  /\ UNCHANGED <<mvars, xvars, rvars>>

SplitNext == ReturnWhole \/ Pack \/ Balance

SplitSpec == SplitInit /\ [][SplitNext]_vars

(***************************************************************************)
(* The extractor as a state machine: _parse_response called twice on one   *)
(* decoded response.                                                       *)
(***************************************************************************)
\* a reading of datetime.now() later than Now
Later == "t2"

\* the settings a response is made of
SampleSettings ==
  { Setting("update_url", <<OtaPrefix, "x">>),
    Setting("update_url", <<>>),
    Setting("update_url", <<BadByte>>),
    Setting("other", <<OtaPrefix, "y">>),
    Setting("other", <<"x">>),
    Setting(BadName, <<OtaPrefix, "z">>),
    Setting("update_title", <<" ", "x", " ">>),
    Setting("update_title", <<"y">>),
    Setting("update_title", <<BadByte>>),
    Setting("update_description", <<"x", "<", "b", "r", ">", "x">>),
    Setting("update_description", <<"y">>),
    Setting("update_size", <<"x">>),
    Setting("update_size", <<"y">>) }

\* response.setting: every sequence of at most MaxSettings settings
SettingSequences ==
  UNION { [1..n -> SampleSettings] : n \in 0..MaxSettings }

ExtractInit ==
  /\ MainIdle
  /\ SplitIdle
  /\ RaceIdle
  /\ xpc = "parse"
  /\ checkin_response \in SettingSequences
  /\ clock = Now
  /\ first_record = None
  /\ second_record = None
  /\ raw_description = <<>>
  /\ cleaned_description = None

\* line 327: update_info = self._parse_response(checkin_response)
ParseFirst ==
  /\ xpc = "parse"
  /\ first_record' = Some(ParseResponse(checkin_response, Model, clock))
  /\ xpc' = "parsed"
  /\ UNCHANGED <<checkin_response, clock, second_record, raw_description,
                 cleaned_description>>
  /\ UNCHANGED <<svars, mvars, rvars>>

\* _parse_response once more on the same response; the clock reads the
\* same or a later time
ParseSecond ==
  /\ xpc = "parsed"
  /\ \E now \in {Now, Later} :
       /\ clock' = now
       /\ second_record' = Some(ParseResponse(checkin_response, Model, now))
  /\ xpc' = "parsed_twice"
  /\ UNCHANGED <<checkin_response, first_record, raw_description,
                 cleaned_description>>
  /\ UNCHANGED <<svars, mvars, rvars>>

ExtractNext == ParseFirst \/ ParseSecond

ExtractSpec == ExtractInit /\ [][ExtractNext]_vars

(***************************************************************************)
(* _clean_description as a state machine: one call.                        *)
(***************************************************************************)
\* the pieces descriptions are made of; "https://" is one character that
\* stands for the scheme, as in UrlSchemes
DescriptionTokens ==
  { <<"x">>, <<" ">>, <<NL>>,
    <<"<", "b", "r", ">">>,
    <<"<", "B", "R", " ", "/", ">">>,
    <<"<", "b", ">">>,
    <<"(">>, <<"https://">>, <<")">> }

\* 'Fix A<br>Fix B<br/>(see https://x)'
DescriptionWithSee ==
  <<"F", "i", "x", " ", "A", "<", "b", "r", ">",
    "F", "i", "x", " ", "B", "<", "b", "r", "/", ">",
    "(", "s", "e", "e", " ", "https://", "x", ")">>

\* 'Fix A<br>Fix B<br/>(https://x)'
DescriptionWithUrl ==
  <<"F", "i", "x", " ", "A", "<", "b", "r", ">",
    "F", "i", "x", " ", "B", "<", "b", "r", "/", ">",
    "(", "https://", "x", ")">>

Descriptions ==
  { Join(ts) : ts \in UNION { [1..n -> DescriptionTokens] :
                               n \in 0..MaxDescriptionTokens } }
  \cup {DescriptionWithSee, DescriptionWithUrl}

CleanInit ==
  /\ MainIdle
  /\ SplitIdle
  /\ RaceIdle
  /\ xpc = "clean"
  /\ checkin_response = <<>>
  /\ clock = Now
  /\ first_record = None
  /\ second_record = None
  /\ raw_description \in Descriptions
  /\ cleaned_description = None

\* line 368: self._clean_description(value)
Clean ==
  /\ xpc = "clean"
  /\ cleaned_description' = Some(CleanDescription(raw_description))
  /\ xpc' = "cleaned"
  /\ UNCHANGED <<checkin_response, clock, first_record, second_record,
                 raw_description>>
  /\ UNCHANGED <<svars, mvars, rvars>>

CleanNext == Clean

CleanSpec == CleanInit /\ [][CleanNext]_vars

(***************************************************************************)
(* Notions the properties of the splitter are stated with.                 *)
(***************************************************************************)
Returned == spc = "returned"

\* The tags of s in document order, each with its kind and name.
RECURSIVE TagEvents(_, _)
TagEvents(s, p) ==
  IF p > Len(s) THEN <<>>
  ELSE LET ce == WordEnd(s, p + 2)
           oe == WordEnd(s, p + 1)
           q  == FirstGt(s, oe + 1)
       IN  IF /\ s[p] = "<"
              /\ p + 1 <= Len(s) /\ s[p + 1] = "/"
              /\ ce >= p + 2
              /\ ce + 1 <= Len(s) /\ s[ce + 1] = ">"
           THEN <<[open |-> FALSE, name |-> SubSeq(s, p + 2, ce)]>>
                \o TagEvents(s, ce + 2)
           ELSE IF s[p] = "<" /\ oe >= p + 1 /\ q > 0
                THEN <<[open |-> TRUE, name |-> SubSeq(s, p + 1, oe)]>>
                     \o TagEvents(s, q + 1)
                ELSE TagEvents(s, p + 1)

\* Reading tags with a stack: an opening tag is pushed, a closing tag must
\* name the innermost open tag and pops it.  simple: no tag is opened
\* inside a tag of the same name.
RECURSIVE Nest(_, _, _)
Nest(ev, stack, simple) ==
  IF ev = <<>> THEN [ok |-> TRUE, stack |-> stack]
  ELSE IF Head(ev).open
       THEN IF simple /\ InSeq(Head(ev).name, stack)
            THEN [ok |-> FALSE, stack |-> stack]
            ELSE Nest(Tail(ev), Append(stack, Head(ev).name), simple)
       ELSE IF stack # <<>> /\ stack[Len(stack)] = Head(ev).name
            THEN Nest(Tail(ev), SubSeq(stack, 1, Len(stack) - 1), simple)
            ELSE [ok |-> FALSE, stack |-> stack]

\* every tag opened in s is closed in s, innermost first, and no closing
\* tag lacks an earlier opening tag
WellNested(s) ==
  LET r == Nest(TagEvents(s, 1), <<>>, FALSE) IN r.ok /\ r.stack = <<>>

SimplyNested(s) ==
  LET r == Nest(TagEvents(s, 1), <<>>, TRUE) IN r.ok /\ r.stack = <<>>

\* the tags opened and not yet closed at the end of s, outermost first
OpenAfter(s) == Nest(TagEvents(s, 1), <<>>, FALSE).stack

\* the tags of the message that are open where part k ends
OpenAtBoundary(k) == OpenAfter(Join(SubSeq(parts, 1, k)))

\* the synthetic tags _split_message put before and after part k
SyntheticPrefix(k) ==
  IF balance # <<>> /\ k > 1 THEN OpeningTags(balance[k - 1].open_tags)
  ELSE <<>>

SyntheticSuffix(k) ==
  IF balance # <<>> /\ k < Len(balance) THEN ClosingTags(balance[k].open_tags)
  ELSE <<>>

\* segment k with its synthetic tags stripped
Stripped(k) ==
  SubSeq(processed_parts[k], 1 + Len(SyntheticPrefix(k)),
         Len(processed_parts[k]) - Len(SyntheticSuffix(k)))

StrippedSegments == [k \in 1..Len(processed_parts) |-> Stripped(k)]

\* m is the segments in order, each followed by a run of whitespace
RECURSIVE SegmentsThenWhitespace(_, _)
SegmentsThenWhitespace(m, segs) ==
  IF segs = <<>> THEN m = <<>>
  ELSE LET s == Head(segs)
       IN  /\ Len(m) >= Len(s)
           /\ SubSeq(m, 1, Len(s)) = s
           /\ \E j \in 0..(Len(m) - Len(s)) :
                /\ \A t \in 1..j : m[Len(s) + t] \in Whitespace
                /\ SegmentsThenWhitespace(SubSeq(m, Len(s) + j + 1, Len(m)),
                                          Tail(segs))

(***************************************************************************)
(* Properties of the splitter (specification SplitSpec).                   *)
(***************************************************************************)

\* C1: every segment _split_message returns has length at most the
\* ceiling, synthetic closing and reopening tags included.
C1_SegmentsWithinCeiling ==
  Returned =>
    \A k \in 1..Len(processed_parts) : Len(processed_parts[k]) <= ceiling

\* C2: for a message whose markup is well nested, every returned segment
\* is well nested on its own: each tag opened in it is closed in it, and
\* no closing tag comes without a matching earlier opening tag.
C2_SegmentsWellNested ==
  (Returned /\ WellNested(message)) =>
    \A k \in 1..Len(processed_parts) : WellNested(processed_parts[k])

\* C3 as claimed: the segments, synthetic tags stripped, concatenate to
\* the original message.
C3_ExactReconstruction ==
  Returned => Join(StrippedSegments) = message

\* C3 as amended: the original message is the segments (synthetic tags
\* stripped) in order, each followed by a possibly empty run of whitespace
\* that the split dropped (the blank-line separator and trailing
\* whitespace); a message within the ceiling is reconstructed exactly.
C3_ReconstructionUpToDroppedWhitespace ==
  Returned =>
    /\ SegmentsThenWhitespace(message, StrippedSegments)
    /\ Len(message) <= ceiling => Join(StrippedSegments) = message

\* C3, the case: a message split in at least two segments with a tag
\* closed and reopened at a boundary, which loses its separator.
C3_Witness ==
  /\ Returned
  /\ Len(processed_parts) >= 2
  /\ \E k \in 1..Len(balance) - 1 : balance[k].open_tags # <<>>
  /\ SegmentsThenWhitespace(message, StrippedSegments)
  /\ Join(StrippedSegments) # message

\* C4: a message of exactly ceiling characters comes back as one segment,
\* unchanged; a message of ceiling + 1 characters comes back as at least
\* two segments.
C4_Boundary ==
  Returned =>
    /\ Len(message) = ceiling => processed_parts = <<message>>
    /\ Len(message) = ceiling + 1 => Len(processed_parts) >= 2

\* C5: at every boundary between two segments, the earlier segment ends
\* with one synthetic closing tag, and the later one starts with one
\* synthetic opening tag, for exactly the tags of the message that are
\* open at the boundary (closings innermost first, reopenings outermost
\* first), and with no other synthetic tag.  Stated for messages whose
\* markup is well nested with no tag inside a tag of the same name.
C5_ContinuationAtOpenBoundaries ==
  (Returned /\ balance # <<>> /\ SimplyNested(message)) =>
    \A k \in 1..Len(parts) :
      processed_parts[k] =
        (IF k > 1 THEN OpeningTags(OpenAtBoundary(k - 1)) ELSE <<>>)
        \o parts[k]
        \o (IF k < Len(parts) THEN ClosingTags(OpenAtBoundary(k)) ELSE <<>>)

(***************************************************************************)
(* Notions the properties of main() are stated with.                       *)
(***************************************************************************)
Exited == pc = "exit"

\* the profile entries a store file holds (none unless it is a JSON object)
Entries(file) ==
  IF file.exists /\ file.content.kind = "json"
     /\ file.content.value.type = "object"
  THEN file.content.value.members
  ELSE NoMembers

(***************************************************************************)
(* Properties of main() and the store (specification Spec).                *)
(***************************************************************************)

\* C6: when the run is over, every entry of another profile that was in
\* the store file before the run is in the file, unaltered; and a file
\* the run wrote holds this profile's entry.
C6_StoreMerge ==
  Exited =>
    /\ \A p \in DOMAIN Entries(store_at_start) \ {config_name} :
         /\ p \in DOMAIN Entries(store_file)
         /\ Entries(store_file)[p] = Entries(store_at_start)[p]
    /\ save_result = "written" =>
         /\ config_name \in DOMAIN Entries(store_file)
         /\ Entries(store_file)[config_name] = StoredEntry

\* C7: load never fails the run: whatever the file holds, load returns
\* (no exception leaves it) a mapping main can set this profile's key in,
\* and the empty mapping when the file is absent, empty or malformed.
C7_LoadNeverFailsRun ==
  /\ outcome # "uncaught_exception"
  /\ all_update_info # None => all_update_info[1].type = "object"
  /\ (pc = "save" /\ Entries(store_at_start) = NoMembers
                  /\ ~(store_at_start.exists
                       /\ store_at_start.content.kind = "json"))
       => all_update_info[1] = EmptyDict

\* the run ended by a return statement of main() after line 640
ReturnedAfterStore ==
  Exited /\ outcome \in {"no_update", "incomplete_update", "release_exists",
                         "notification_skipped", "notified",
                         "notification_failed"}

\* C8: no notification POST is sent in a run whose store write did not
\* complete with this profile's entry in the file, and every run that
\* returns after the store step, update or not, has written the store.
C8_StoreSavedBeforeNotification ==
  /\ posts # <<>> =>
       /\ save_result = "written"
       /\ config_name \in DOMAIN Entries(store_file)
  /\ ReturnedAfterStore => save_result = "written"

\* C9: the run ends with a non-zero code only after a configuration
\* error, an update lacking title, url or size, or a failed notification;
\* every other run ends with code 0.
C9_ExitCodeContract ==
  Exited =>
    (exit_code # Some(0) =>
       outcome \in {"config_error", "incomplete_update",
                    "notification_failed"})

\* C10: after a failed checkin exchange check_for_updates has returned
\* (False, None), one POST at most was sent to the checkin service, no
\* notification is sent, and the run ends with code 0 and an entry with
\* found = false passed to the store for this profile.
C10_FailedCheckinNotFatal ==
  check_result \in {"prepare_failed", "request_failed"} =>
    /\ found = FALSE /\ update_data = None
    /\ checkin_posts <= 1
    /\ posts = <<>>
    /\ Exited =>
         /\ exit_code = Some(0)
         /\ save_result # "none"
         /\ all_update_info[1].members[config_name].found = FALSE

\* C11: response bytes that fail to parse end in "no update found": with
\* debug on or off, and whether or not the debug artifact could be
\* written, check_for_updates returns (False, None) without raising, and
\* the run ends with code 0.
C11_DecodeFailureIsNoUpdate ==
  (response.received /\ ~response.parsable /\ pc # "decode") =>
    /\ check_result = "parse_failed"
    /\ found = FALSE /\ update_data = None
    /\ outcome # "critical_check_error"
    /\ Exited => exit_code = Some(0)

(***************************************************************************)
(* Notions the properties of the extractor are stated with.                *)
(***************************************************************************)
Parsed == first_record # None
ParsedTwice == second_record # None

\* the entry has the reserved name, or its value contains the prefix
Matches(entry) == entry.name = "update_url" \/ ContainsOta(entry.value)

\* the positions of the matching settings, and of those whose value is
\* valid UTF-8
MatchingIndexes(seq) == { k \in 1..Len(seq) : Matches(seq[k]) }
DecodableMatches(seq) ==
  { k \in MatchingIndexes(seq) : ~Undecodable(seq[k].value) }

Least(S) == CHOOSE k \in S : \A j \in S : k <= j

HasSetting(seq, name) == \E k \in 1..Len(seq) : seq[k].name = name

(***************************************************************************)
(* Properties of the extractor (specification ExtractSpec).                *)
(***************************************************************************)

\* C12: every record _parse_response returns with found = true has a url
\* that is not empty.
C12_FoundImpliesUrl ==
  Parsed => (first_record[1].found => Truthy(first_record[1].url))

\* C13 as claimed: the url of the record is the value of the first
\* setting that matches, and found is true exactly when a setting matches.
C13_FirstMatchWins ==
  Parsed =>
    LET I == MatchingIndexes(checkin_response)
    IN  /\ first_record[1].found = (I # {})
        /\ I # {} =>
             first_record[1].url = Some(checkin_response[Least(I)].value)

\* C13 as amended: the url of the record is the value of the first
\* setting, in sequence order, that matches and whose value is valid
\* UTF-8; found is true exactly when there is such a setting; otherwise
\* url is null.
C13_FirstDecodableMatchWins ==
  Parsed =>
    LET I == DecodableMatches(checkin_response)
    IN  /\ first_record[1].found = (I # {})
        /\ I # {} =>
             first_record[1].url = Some(checkin_response[Least(I)].value)
        /\ I = {} => first_record[1].url = None

\* C13, the case: the first matching setting does not decode and a later,
\* different one gives the url, with a third match after it.
C13_Witness ==
  /\ Parsed
  /\ LET I == MatchingIndexes(checkin_response)
         D == DecodableMatches(checkin_response)
     IN  /\ D # {} /\ Least(I) < Least(D)
         /\ \E k \in D : /\ k > Least(D)
                         /\ checkin_response[k].value
                              # checkin_response[Least(D)].value
         /\ first_record[1].url = Some(checkin_response[Least(D)].value)

\* C14: a record with found = false has url, title, description and size
\* all null, and found is false whenever no setting matches in Pass 1,
\* whatever update_title, update_description or update_size settings the
\* sequence holds.
C14_NothingGatheredWithoutMatch ==
  Parsed =>
    /\ MatchingIndexes(checkin_response) = {} => ~first_record[1].found
    /\ ~first_record[1].found =>
         /\ first_record[1].url = None
         /\ first_record[1].title = None
         /\ first_record[1].description = None
         /\ first_record[1].size = None

\* C14, the case: no setting matches, yet the sequence holds a title, a
\* description and a size.
C14_Witness ==
  /\ Parsed
  /\ MatchingIndexes(checkin_response) = {}
  /\ HasSetting(checkin_response, "update_title")
  /\ HasSetting(checkin_response, "update_description")
  /\ HasSetting(checkin_response, "update_size")
  /\ ~first_record[1].found
  /\ first_record[1].title = None

Cleaned == cleaned_description # None

\* s has a markup tag: a "<" with a ">" after it
HasTag(s) == \E i, j \in 1..Len(s) : i < j /\ s[i] = "<" /\ s[j] = ">"

\* s has a URL reference: "(" directly followed by the scheme and one
\* more character that is not whitespace
HasUrlRef(s) ==
  \E k \in 1..Len(s) - 2 :
    /\ s[k] = "("
    /\ s[k + 1] \in UrlSchemes
    /\ s[k + 2] \notin Whitespace

\* 'Fix A\nFix B'
FixAFixB == <<"F", "i", "x", " ", "A", NL, "F", "i", "x", " ", "B">>

\* C15 as claimed: 'Fix A<br>Fix B<br/>(see https://x)' is cleaned to
\* 'Fix A\nFix B'.
C15_SeeReferenceRemoved ==
  (Cleaned /\ raw_description = DescriptionWithSee) =>
    cleaned_description[1] = FixAFixB

\* C15 as amended: the cleaned description has no markup tag and no URL
\* reference "(http://..." or "(https://..." left; a line-break tag, in
\* either letter case and with or without the slash, has become a
\* newline; 'Fix A<br>Fix B<br/>(https://x)' is cleaned to 'Fix A\nFix B',
\* while in 'Fix A<br>Fix B<br/>(see https://x)' the parenthesis is not
\* directly followed by the scheme and stays.
C15_TagsAndUrlReferencesRemoved ==
  Cleaned =>
    /\ ~HasTag(cleaned_description[1])
    /\ ~HasUrlRef(cleaned_description[1])
    /\ raw_description = <<"x", "<", "B", "R", " ", "/", ">", "x">> =>
         cleaned_description[1] = <<"x", NL, "x">>
    /\ raw_description = <<"x", "<", "b", "r", ">", "x">> =>
         cleaned_description[1] = <<"x", NL, "x">>
    /\ raw_description = DescriptionWithUrl =>
         cleaned_description[1] = FixAFixB
    /\ raw_description = DescriptionWithSee =>
         cleaned_description[1] =
           FixAFixB \o <<NL, "(", "s", "e", "e", " ", "https://", "x", ")">>

\* C15, the case: the description with a parenthesized URL after two
\* line-break tags has been cleaned.
C15_Witness ==
  /\ Cleaned
  /\ raw_description = DescriptionWithUrl
  /\ cleaned_description[1] = FixAFixB

(***************************************************************************)
(* Properties of send_message and of main() (specification Spec).          *)
(***************************************************************************)

\* C17: the segments are posted in index order; no segment is posted
\* after one whose POST failed; send_message returns True (the run ends
\* notified) exactly when every segment was posted with success, and
\* False (the run ends with a failed notification) exactly when the last
\* POST made failed.
C17_DeliveryInOrderAllOrNothing ==
  /\ Len(posts) <= Len(message_parts)
  /\ \A i \in 1..Len(posts) : posts[i].text = message_parts[i]
  /\ \A i \in 1..Len(posts) - 1 : posts[i].ok
  /\ (outcome = "notified") =
       (/\ posts # <<>>
        /\ Len(posts) = Len(message_parts)
        /\ \A i \in 1..Len(posts) : posts[i].ok)
  /\ (outcome = "notification_failed") =
       (posts # <<>> /\ ~posts[Len(posts)].ok)

\* C17, the case: of three segments the second failed and the third was
\* never posted.
C17_Witness ==
  /\ outcome = "notification_failed"
  /\ Len(message_parts) = 3
  /\ Len(posts) = 2
  /\ posts[1].ok /\ ~posts[2].ok

\* C18: the action button goes with the request that carries the last
\* segment and with no request that carries an earlier one.
C18_ButtonOnLastSegmentOnly ==
  \A i \in 1..Len(posts) : posts[i].button = (i = Len(message_parts))

\* C18, the case: three segments were delivered, the third with the
\* button.
C18_Witness ==
  /\ outcome = "notified"
  /\ Len(posts) = 3
  /\ ~posts[1].button /\ ~posts[2].button /\ posts[3].button

\* check_for_updates returned a record with found = true that lacks a
\* title or a size
IncompleteUpdate ==
  /\ update_data # None
  /\ update_data[1].found
  /\ ~Truthy(update_data[1].title) \/ ~Truthy(update_data[1].size)

\* C19: when an update is detected but its title or size is missing, no
\* notification is sent and the run ends with code 1, and the entry main
\* hands to the store, and the entry in a file it wrote, is the record
\* _parse_response returned, with found = true.
C19_GateAtNotificationNotAtPersistence ==
  IncompleteUpdate =>
    /\ posts = <<>>
    /\ Exited => exit_code = Some(1)
    /\ save_result # "none" =>
         /\ all_update_info[1].members[config_name]
              = ParseResponse(response.setting, Model, Now)
         /\ all_update_info[1].members[config_name].found
    /\ save_result = "written" =>
         /\ Entries(store_file)[config_name]
              = ParseResponse(response.setting, Model, Now)
         /\ Entries(store_file)[config_name].found

\* C19, the case: a run that found an update without a size has stored
\* the record and ended at the completeness test.
C19_Witness ==
  /\ outcome = "incomplete_update"
  /\ exit_code = Some(1)
  /\ save_result = "written"
  /\ Truthy(update_data[1].title)
  /\ update_data[1].size = None
  /\ Entries(store_file)[config_name].found
  /\ posts = <<>>

\* C20: in a run that ended with a configuration error no checkin POST
\* and no notification POST was sent and the store was not written.
C20_ConfigErrorBeforeAnyNetworkCall ==
  outcome = "config_error" =>
    /\ checkin_posts = 0
    /\ posts = <<>>
    /\ save_result = "none"
    /\ store_file = store_at_start
    /\ response = NoResponse

\* C20, the case: a run ended with a configuration error, with a store
\* file of an earlier run in place.
C20_Witness ==
  /\ Exited
  /\ outcome = "config_error"
  /\ exit_code = Some(1)
  /\ Entries(store_at_start) # NoMembers

\* a messaging credential is absent from the environment
MissingCredentials == ~bot_token \/ ~chat_id

\* the run is past lines 593-605
SetupDone == pc \notin {"config", "telegram"} /\ outcome # "config_error"

\* C21: with a messaging credential absent, the run goes on past the
\* setup in the state of a run with --skip-telegram (the flag set, no
\* notifier): it makes the check and the store update, sends no
\* notification POST, and where a complete update is reached it ends as a
\* skipped notification with code 0.
C21_MissingCredentialsSkipNotification ==
  (MissingCredentials /\ SetupDone) =>
    /\ args.skip_telegram /\ ~telegram_notifier
    /\ posts = <<>>
    /\ outcome \notin {"notified", "notification_failed"}
    /\ Exited => check_result # "none"
    /\ pc \in {"decide", "release", "fingerprint", "notify"} =>
         save_result # "none"
    /\ outcome = "notification_skipped" => exit_code = Some(0)
    /\ pc # "send"

\* C21, the case: a run without --skip-telegram and without credentials
\* found a complete update, stored it and ended without notifying.
C21_Witness ==
  /\ ~skip_requested
  /\ MissingCredentials
  /\ outcome = "notification_skipped"
  /\ exit_code = Some(0)
  /\ save_result = "written"
  /\ found
  /\ posts = <<>>

\* C24: when the release check is made and the lookup reports a release
\* named by the update title, no notification POST is sent and the run
\* ends with code 0; when the lookup could not be made the update counts
\* as unseen: the run goes on to the notification step, where it notifies
\* unless notification is skipped.
C24_ReleaseDeduplication ==
  /\ release_lookup # "none" =>
       /\ Truthy(update_data[1].title)
       /\ (release_lookup = "skipped") = args.skip_git
  /\ release_lookup = "exists" =>
       /\ posts = <<>>
       /\ Exited /\ outcome = "release_exists" /\ exit_code = Some(0)
  /\ release_lookup = "unavailable" =>
       /\ outcome # "release_exists"
       /\ pc \in {"fingerprint", "notify", "send", "exit"}
       /\ Exited =>
            outcome \in {"notified", "notification_failed",
                         "notification_skipped"}
       /\ (Exited /\ ~args.skip_telegram /\ telegram_notifier) =>
            posts # <<>>

\* C24, the case: a lookup that could not be made, followed by a
\* delivered notification.
C24_Witness ==
  /\ release_lookup = "unavailable"
  /\ outcome = "notified"
  /\ posts # <<>>

(***************************************************************************)
(* More properties of the splitter (specification SplitSpec).              *)
(***************************************************************************)

\* C25: for a message that is not empty, no segment _split_message
\* returns is empty.
C25_NoEmptySegment ==
  (Returned /\ message # <<>>) =>
    \A k \in 1..Len(processed_parts) : processed_parts[k] # <<>>

\* the packing loop (lines 120-137) has just run
Packed == spc = "packed"

\* the blank-line-separated blocks of the message
MessageBlocks == SplitBlocks(message, <<>>)

\* blocks a..b, each followed by the blank-line separator
RECURSIVE WithSeparators(_, _, _)
WithSeparators(bs, a, b) ==
  IF a > b THEN <<>>
  ELSE bs[a] \o <<NL, NL>> \o WithSeparators(bs, a + 1, b)

\* cuts is the set of blocks that start a new segment; the first block
\* of the segment that holds block k
SegmentStart(cuts, k) ==
  CHOOSE a \in (cuts \cup {1}) :
    a <= k /\ \A c \in (cuts \cup {1}) : c <= k => c <= a

\* the segments the cuts make of the blocks from block a on: each is its
\* blocks with their separators, trailing whitespace stripped
RECURSIVE SegmentsFrom(_, _, _)
SegmentsFrom(bs, cuts, a) ==
  LET later == { c \in cuts : c > a }
      b == IF later = {} THEN Len(bs)
           ELSE (CHOOSE c \in later : \A d \in later : c <= d) - 1
  IN  <<RStrip(WithSeparators(bs, a, b))>>
      \o (IF later = {} THEN <<>> ELSE SegmentsFrom(bs, cuts, b + 1))

\* C23 as claimed: the blocks are packed in order, each in one segment;
\* block k starts a new segment exactly when the current segment with
\* block k appended would be longer than the ceiling; a block longer than
\* the ceiling is a segment, whole.
C23_GreedyPacking ==
  Packed =>
    \E cuts \in SUBSET (2..Len(MessageBlocks)) :
      /\ \A k \in 2..Len(MessageBlocks) :
           (k \in cuts) =
             (Len(WithSeparators(MessageBlocks,
                                 SegmentStart(cuts, k - 1), k - 1))
              + Len(MessageBlocks[k]) > ceiling)
      /\ parts = SegmentsFrom(MessageBlocks, cuts, 1)
      /\ \A k \in 1..Len(MessageBlocks) :
           Len(MessageBlocks[k]) > ceiling =>
             \E j \in 1..Len(parts) : parts[j] = MessageBlocks[k]

\* C23 as amended: the blocks are packed in order, each in one segment;
\* block k starts a new segment exactly when the text gathered for the
\* current segment (its blocks, each with its two-character separator)
\* plus block k plus one more separator is longer than the ceiling; a
\* segment is that text with trailing whitespace stripped, so a block
\* longer than the ceiling is a segment of its own, whole but for its
\* trailing whitespace.
C23_GreedyPackingCountingSeparator ==
  Packed =>
    \E cuts \in SUBSET (2..Len(MessageBlocks)) :
      /\ \A k \in 2..Len(MessageBlocks) :
           (k \in cuts) =
             (Len(WithSeparators(MessageBlocks,
                                 SegmentStart(cuts, k - 1), k - 1))
              + Len(MessageBlocks[k]) + 2 > ceiling)
      /\ parts = SegmentsFrom(MessageBlocks, cuts, 1)
      /\ \A k \in 1..Len(MessageBlocks) :
           Len(MessageBlocks[k]) > ceiling =>
             \E j \in 1..Len(parts) : parts[j] = RStrip(MessageBlocks[k])

\* C23, the case: three blocks, the second of which would fit in the
\* first segment without a separator after it, in three segments.
C23_Witness ==
  /\ Packed
  /\ Len(MessageBlocks) = 3
  /\ \A k \in 1..3 : MessageBlocks[k] # <<>>
  /\ Len(WithSeparators(MessageBlocks, 1, 1)) + Len(MessageBlocks[2])
       <= ceiling
  /\ parts = [k \in 1..3 |-> RStrip(MessageBlocks[k])]

(***************************************************************************)
(* More properties of the extractor (specification ExtractSpec).           *)
(***************************************************************************)
\* the positions of the entries of that name whose value is valid UTF-8
Named(seq, name) ==
  { k \in 1..Len(seq) : seq[k].name = name /\ ~Undecodable(seq[k].value) }

Greatest(S) == CHOOSE k \in S : \A j \in S : j <= k

\* the value of the last decodable entry of that name, None without one
LastValue(seq, name) ==
  IF Named(seq, name) = {} THEN None
  ELSE Some(seq[Greatest(Named(seq, name))].value)

\* the title, description and size of a found record are those of the
\* last decodable entry of each name, tidied and cleaned
DetailsOfLastEntries ==
  LET t == LastValue(checkin_response, "update_title")
      d == LastValue(checkin_response, "update_description")
  IN  /\ first_record[1].title
           = (IF t = None THEN None ELSE Some(TidyTitle(t[1])))
      /\ first_record[1].description
           = (IF d = None THEN None ELSE Some(CleanDescription(d[1])))
      /\ first_record[1].size = LastValue(checkin_response, "update_size")

\* C26 as claimed: title, description and size come from the last
\* decodable entry of their name, entries that do not decode being
\* skipped, and the url from the first matching entry.
C26_LastDetailFirstMatch ==
  (Parsed /\ first_record[1].found) =>
    /\ DetailsOfLastEntries
    /\ first_record[1].url
         = Some(checkin_response[Least(MatchingIndexes(checkin_response))]
                  .value)

\* C26 as amended: title, description and size come from the last
\* decodable entry of their name, entries whose name or value does not
\* decode being skipped, and the url from the first matching entry whose
\* value decodes.
C26_LastDetailFirstDecodableMatch ==
  (Parsed /\ first_record[1].found) =>
    /\ DetailsOfLastEntries
    /\ first_record[1].url
         = Some(checkin_response[Least(DecodableMatches(checkin_response))]
                  .value)

\* C26, the case: two decodable update_title entries with different
\* values, the record holding the later one.
C26_Witness ==
  /\ Parsed
  /\ first_record[1].found
  /\ LET T == Named(checkin_response, "update_title")
     IN  /\ \E i, j \in T :
               /\ i < j
               /\ TidyTitle(checkin_response[i].value)
                    # TidyTitle(checkin_response[j].value)
         /\ first_record[1].title
              = Some(TidyTitle(checkin_response[Greatest(T)].value))

(***************************************************************************)
(* Two runs of main(), for profiles A and B, on one store file: each run   *)
(* is its load (line 629) and then its item assignment and save (lines     *)
(* 630-640); the steps of the two runs interleave freely.                  *)
(***************************************************************************)
\* the record the run for profile p stores
RaceEntry(p) ==
  [device |-> p, found |-> TRUE, timestamp |-> Now,
   title |-> Some(<<"x">>), description |-> None,
   size |-> Some(<<"x">>), url |-> Some(<<OtaPrefix>>)]

RaceInit ==
  /\ MainIdle
  /\ SplitIdle
  /\ ExtractIdle
  /\ race_pc = [p \in Profiles |-> "load"]
  /\ race_loaded = [p \in Profiles |-> None]
  /\ race_saved = [p \in Profiles |-> "none"]
  /\ race_file \in StoreFiles
  /\ race_log = <<>>

\* line 629 in the run for profile p
RaceLoad(p) ==
  /\ race_pc[p] = "load"
  /\ \E io \in {"ok", "oserror"} :
       LET loaded == Load(race_file, io)
       IN  IF loaded.raised
           THEN /\ race_pc' = [race_pc EXCEPT ![p] = "crashed"]
                /\ UNCHANGED race_loaded
           ELSE /\ race_loaded' = [race_loaded EXCEPT ![p] = Some(loaded.value)]
                /\ race_pc' = [race_pc EXCEPT ![p] = "save"]
  /\ race_log' = Append(race_log, p)
  /\ UNCHANGED <<race_saved, race_file>>
  /\ UNCHANGED <<svars, mvars, xvars>>

\* lines 630-640 in the run for profile p
RaceSave(p) ==
  /\ race_pc[p] = "save"
  /\ IF race_loaded[p][1].type # "object"
     THEN /\ race_pc' = [race_pc EXCEPT ![p] = "crashed"]
          /\ UNCHANGED <<race_saved, race_file>>
     ELSE \E io \in {"written", "open_failed", "write_failed"} :
            LET merged == SetItem(race_loaded[p][1], p, RaceEntry(p))
            IN  /\ race_file' = Save(race_file, merged, io)
                /\ race_saved' = [race_saved EXCEPT ![p] = io]
                /\ race_pc' = [race_pc EXCEPT ![p] = "done"]
  /\ race_log' = Append(race_log, p)
  /\ UNCHANGED race_loaded
  /\ UNCHANGED <<svars, mvars, xvars>>

RaceNext == \E p \in Profiles : RaceLoad(p) \/ RaceSave(p)

RaceSpec == RaceInit /\ [][RaceNext]_vars

\* both runs are over
AllOver == \A p \in Profiles : race_pc[p] \in {"done", "crashed"}

\* one run took all its steps before the other took its first
Sequential ==
  \A i, j, k \in 1..Len(race_log) :
    (i < j /\ j < k /\ race_log[i] = race_log[k]) => race_log[j] = race_log[i]

\* the store holds the entry the run for profile p stores
Kept(p) ==
  /\ p \in DOMAIN Entries(race_file)
  /\ Entries(race_file)[p] = RaceEntry(p)

\* a lost update: both runs loaded a mapping and wrote the file, their
\* steps interleaved, and the file lacks the entry of one of them
LostUpdate ==
  /\ AllOver
  /\ ~Sequential
  /\ \A p \in Profiles : race_saved[p] = "written"
  /\ \E p \in Profiles : ~Kept(p)

\* C22: two runs for different profiles on one store file: when one run
\* takes all its steps before the other begins, the store holds the
\* entries of both runs once both are over (only an interleaving of the
\* two runs loses an update).
C22_SequentialRunsKeepBothEntries ==
  (AllOver /\ Sequential) => \A p \in Profiles : Kept(p)

\* a sequential execution in which both runs wrote the file and an entry
\* is missing all the same: the load of the later run hit a read error
SequentialWrittenLoss ==
  /\ AllOver
  /\ Sequential
  /\ \A p \in Profiles : race_saved[p] = "written"
  /\ \E p \in Profiles : ~Kept(p)

====
